---- MODULE Spec2Model ----
(***************************************************************************)
(* A model of minitorch's scalar autodiff core: Context, the              *)
(* ScalarFunction.apply dispatcher with Add and Mul, topological_sort     *)
(* and backpropagate.  Floats are modelled by integers (Add and Mul are   *)
(* exact on the small values used).  The Scalar node class itself is      *)
(* modelled from the documented data model: a value, an optional history  *)
(* (last_fn, ctx, inputs), an optional derivative and a unique_id taken    *)
(* from the process-wide counter.  A run constructs at most MaxNodes      *)
(* nodes and hands each seed of Seeds to at most one backpropagate call.  *)
(***************************************************************************)
EXTENDS Integers, Sequences, FiniteSets, TLC

\* ---------------------------------------------------------------- bounds
\* Nodes that may be constructed in one run.
MaxNodes == 3
\* save_for_backward calls on the stand-alone Context.
MaxSaves == 3

\* Numeric literals handed to apply / Scalar.
Vals == {2, 3}
\* Values of the constants built with no history.
ConstVals == {3}
\* Seeds handed to backpropagate, each to at most one call of a run.
Seeds == {1, 2}
\* The operations modelled.
Fns == {"Add", "Mul"}

VARIABLES
    variable_count,     \* the process-wide id counter
    data,               \* data[id]: the node's value
    history,            \* history[id]: None or <<ScalarHistory>>
    derivative,         \* derivative[id]: None or <<d>>
    pc,                 \* "idle", "loop" (inside backpropagate's for loop), "raised"
    sorted_variables,   \* backpropagate's local: topological_sort(variable)
    derivatives,        \* backpropagate's local dict unique_id -> derivative
    idx,                \* position of the loop in reversed(sorted_variables)
    deriv,              \* backpropagate's local deriv (re-bound by the loop)
    calls,              \* the backpropagate calls so far, each <<variable, deriv>>
    ctx,                \* a stand-alone Context
    ctx_args            \* the arguments of every save_for_backward call on ctx

vars == <<variable_count, data, history, derivative, pc, sorted_variables,
          derivatives, idx, deriv, calls, ctx, ctx_args>>

graph_vars == <<variable_count, data, history, derivative>>
bp_vars == <<pc, sorted_variables, derivatives, idx, deriv, calls>>
ctx_vars == <<ctx, ctx_args>>

\* Python's None, and an optional holding x.
None == <<>>
Some(x) == <<x>>

\* ---------------------------------------------------------------- Context
\* Context(no_grad, saved_values); both fields default: Context() = Context(FALSE, <<>>).
Context(no_grad, saved_values) == [no_grad |-> no_grad, saved_values |-> saved_values]

\* Mutant: the no_grad flag is not looked at.
save_for_backward_always(c, values) == [c EXCEPT !.saved_values = values]

save_for_backward(c, values) ==
    IF c.no_grad THEN c ELSE [c EXCEPT !.saved_values = values]

saved_tensors(c) == c.saved_values

\* ---------------------------------------------------------------- operations
forward(cls, c, raw_vals) ==
    IF cls = "Add"
    THEN [ctx |-> c, out |-> raw_vals[1] + raw_vals[2]]
    ELSE [ctx |-> save_for_backward(c, <<raw_vals[1], raw_vals[2]>>),
          out |-> raw_vals[1] * raw_vals[2]]

\* Mutant: Mul.backward pairs each input with its own value.
backward_own(cls, c, d_output) ==
    IF cls = "Add"
    THEN <<d_output, d_output>>
    ELSE <<c.saved_values[1] * d_output, c.saved_values[2] * d_output>>

backward(cls, c, d_output) ==
    IF cls = "Add"
    THEN <<d_output, d_output>>
    ELSE <<c.saved_values[2] * d_output, c.saved_values[1] * d_output>>

\* Add and Mul both return tuples, which wrap_tuple returns as they are.
wrap_tuple(x) == x

_backward(cls, c, d_out) == wrap_tuple(backward(cls, c, d_out))

\* ---------------------------------------------------------------- nodes
\* The heap of nodes: node id is at position id of data, history and derivative.
Heap == [variable_count |-> variable_count, data |-> data,
         history |-> history, derivative |-> derivative]

EmptyHeap == [variable_count |-> 1, data |-> <<>>, history |-> <<>>, derivative |-> <<>>]

ScalarHistory(last_fn, c, inputs) == [last_fn |-> last_fn, ctx |-> c, inputs |-> inputs]

\* ScalarHistory(): no last_fn, no ctx, no inputs.
EmptyHistory == ScalarHistory("None", None, <<>>)

\* Scalar(v, back): the new node takes the counter's value as its unique_id.
Scalar(h, v, back) ==
    [variable_count |-> h.variable_count + 1,
     data |-> Append(h.data, v),
     history |-> Append(h.history, back),
     derivative |-> Append(h.derivative, None)]

NodeIds(h) == 1 .. (h.variable_count - 1)
Ids == NodeIds(Heap)

is_constant(h, n) == h.history[n] = None

parents(h, n) == h.history[n][1].inputs

is_leaf(h, n) == h.history[n] = None \/ Len(h.history[n][1].inputs) = 0

Zip(s, t) == [k \in 1 .. (IF Len(s) < Len(t) THEN Len(s) ELSE Len(t)) |-> <<s[k], t[k]>>]

chain_rule(h, n, d_output) ==
    LET hist == h.history[n][1]
    IN Zip(hist.inputs, _backward(hist.last_fn, hist.ctx[1], d_output))

accumulate_derivative(d, x) == IF d = None THEN Some(0 + x) ELSE Some(d[1] + x)

\* ---------------------------------------------------------------- apply
\* An argument of apply: a Scalar (by unique_id) or a bare number.
IsScalar(v) == v.scalar
ScalarArg(n) == [scalar |-> TRUE, v |-> n]
NumArg(x) == [scalar |-> FALSE, v |-> x]
Args == {ScalarArg(n) : n \in Ids} \cup {NumArg(x) : x \in Vals}

RECURSIVE apply_loop(_, _, _)
\* Mutant: a wrapped number is recorded under the id after its own.
apply_loop_next_id(vals, k, st) ==
    IF k > Len(vals) THEN st
    ELSE LET v == vals[k]
         IN IF IsScalar(v)
            THEN apply_loop(vals, k + 1,
                     [h |-> st.h,
                      scalars |-> Append(st.scalars, v.v),
                      raw_vals |-> Append(st.raw_vals, st.h.data[v.v])])
            ELSE apply_loop(vals, k + 1,
                     [h |-> Scalar(st.h, v.v, Some(EmptyHistory)),
                      scalars |-> Append(st.scalars, st.h.variable_count + 1),
                      raw_vals |-> Append(st.raw_vals, v.v)])

\* The for loop of apply over vals[k..]: st = [h, scalars, raw_vals].
apply_loop(vals, k, st) ==
    IF k > Len(vals) THEN st
    ELSE LET v == vals[k]
         IN IF IsScalar(v)
            THEN apply_loop(vals, k + 1,
                     [h |-> st.h,
                      scalars |-> Append(st.scalars, v.v),
                      raw_vals |-> Append(st.raw_vals, st.h.data[v.v])])
            ELSE apply_loop(vals, k + 1,
                     [h |-> Scalar(st.h, v.v, Some(EmptyHistory)),
                      scalars |-> Append(st.scalars, st.h.variable_count),
                      raw_vals |-> Append(st.raw_vals, v.v)])

\* cls.apply(*vals) on heap h: the heap afterwards (the result is its last node).
apply(h, cls, vals) ==
    LET st == apply_loop(vals, 1, [h |-> h, scalars |-> <<>>, raw_vals |-> <<>>])
        f == forward(cls, Context(FALSE, <<>>), st.raw_vals)
        back == ScalarHistory(cls, Some(f.ctx), st.scalars)
    IN Scalar(st.h, f.out, Some(back))

NewNodes(vals) == Cardinality({k \in 1 .. Len(vals) : ~IsScalar(vals[k])}) + 1

SetHeap(h) ==
    /\ variable_count' = h.variable_count
    /\ data' = h.data
    /\ history' = h.history
    /\ derivative' = h.derivative

Apply(cls, vals) ==
    /\ pc = "idle"
    /\ (variable_count - 1) + NewNodes(vals) <= MaxNodes
    /\ SetHeap(apply(Heap, cls, vals))
    /\ UNCHANGED <<bp_vars, ctx_vars>>

\* Scalar(v): a leaf with an empty history.
NewScalar(v) ==
    /\ pc = "idle"
    /\ variable_count - 1 < MaxNodes
    /\ SetHeap(Scalar(Heap, v, Some(EmptyHistory)))
    /\ UNCHANGED <<bp_vars, ctx_vars>>

\* Scalar(v, None): a constant, a node with no history.
NewConstant(v) ==
    /\ pc = "idle"
    /\ variable_count - 1 < MaxNodes
    /\ SetHeap(Scalar(Heap, v, None))
    /\ UNCHANGED <<bp_vars, ctx_vars>>

\* ---------------------------------------------------------------- topological_sort
RECURSIVE visit(_, _, _)
RECURSIVE visit_parents(_, _, _, _)
\* Mutant: the node is appended before its parents are visited.
visit_preorder(h, var, st) ==
    IF var \in st.visited \/ is_constant(h, var) THEN st
    ELSE LET st1 == [visited |-> st.visited \cup {var},
                     sorted_variables |-> Append(st.sorted_variables, var)]
         IN IF h.history[var] # None
            THEN visit_parents(h, parents(h, var), 1, st1)
            ELSE st1

\* Mutant: constants are not skipped.
visit_constants(h, var, st) ==
    IF var \in st.visited THEN st
    ELSE LET st1 == [st EXCEPT !.visited = @ \cup {var}]
             st2 == IF h.history[var] # None
                    THEN visit_parents(h, parents(h, var), 1, st1)
                    ELSE st1
         IN [st2 EXCEPT !.sorted_variables = Append(@, var)]

\* visit(var) on st = [visited, sorted_variables].
visit(h, var, st) ==
    IF var \in st.visited \/ is_constant(h, var) THEN st
    ELSE LET st1 == [st EXCEPT !.visited = @ \cup {var}]
             st2 == IF h.history[var] # None
                    THEN visit_parents(h, parents(h, var), 1, st1)
                    ELSE st1
         IN [st2 EXCEPT !.sorted_variables = Append(@, var)]

\* for parent in var.parents: visit(parent)
visit_parents(h, ps, k, st) ==
    IF k > Len(ps) THEN st ELSE visit_parents(h, ps, k + 1, visit(h, ps[k], st))

reversed(s) == [k \in 1 .. Len(s) |-> s[Len(s) - k + 1]]

\* Mutant: the sequence is returned starting from the right, the root first.
topological_sort_from_right(h, variable) ==
    reversed(visit(h, variable, [visited |-> {}, sorted_variables |-> <<>>]).sorted_variables)

topological_sort(h, variable) ==
    visit(h, variable, [visited |-> {}, sorted_variables |-> <<>>]).sorted_variables

\* ---------------------------------------------------------------- backpropagate
\* Mutant: a contribution overwrites the entry that is there.
add_derivative_overwrite(m, parent_id, parent_deriv) ==
    IF parent_id \notin DOMAIN m
    THEN (parent_id :> parent_deriv) @@ m
    ELSE [m EXCEPT ![parent_id] = parent_deriv]

\* derivatives[parent_id] is set, or added to when it is there already.
add_derivative(m, parent_id, parent_deriv) ==
    IF parent_id \notin DOMAIN m
    THEN (parent_id :> parent_deriv) @@ m
    ELSE [m EXCEPT ![parent_id] = m[parent_id] + parent_deriv]

RECURSIVE chain_loop(_, _, _)
\* for parent_var, parent_deriv in var.chain_rule(deriv)
chain_loop(pairs, k, m) ==
    IF k > Len(pairs) THEN m
    ELSE chain_loop(pairs, k + 1, add_derivative(m, pairs[k][1], pairs[k][2]))

\* Mutant: the map is seeded with 1 whatever deriv is.
bp_enter_unit_seed(h, variable, d) ==
    [sorted_variables |-> topological_sort(h, variable),
     derivatives |-> (variable :> 1),
     idx |-> 1,
     deriv |-> d,
     raised |-> FALSE]

\* The locals of a backpropagate call as the loop is entered.
bp_enter(h, variable, d) ==
    [sorted_variables |-> topological_sort(h, variable),
     derivatives |-> (variable :> d),
     idx |-> 1,
     deriv |-> d,
     raised |-> FALSE]

bp_more(fr) == ~fr.raised /\ fr.idx <= Len(fr.sorted_variables)

\* Mutant: the derivative is accumulated on every node, leaf or not.
bp_iter_every_node(h, fr) ==
    LET var == reversed(fr.sorted_variables)[fr.idx]
    IN IF var \notin DOMAIN fr.derivatives
       THEN [h |-> h, fr |-> [fr EXCEPT !.raised = TRUE]]
       ELSE LET d == fr.derivatives[var]
                fr1 == [fr EXCEPT !.deriv = d, !.idx = @ + 1]
                h1 == [h EXCEPT !.derivative[var] = accumulate_derivative(@, d)]
            IN IF is_leaf(h, var)
               THEN [h |-> h1, fr |-> fr1]
               ELSE [h |-> h1,
                     fr |-> [fr1 EXCEPT !.derivatives =
                                 chain_loop(chain_rule(h, var, d), 1, @)]]

\* One iteration of  for var in reversed(sorted_variables)  on heap h and locals fr.
bp_iter(h, fr) ==
    LET var == reversed(fr.sorted_variables)[fr.idx]
    IN IF var \notin DOMAIN fr.derivatives
       THEN \* derivatives[var.unique_id] raises KeyError
            [h |-> h, fr |-> [fr EXCEPT !.raised = TRUE]]
       ELSE LET d == fr.derivatives[var]
                fr1 == [fr EXCEPT !.deriv = d, !.idx = @ + 1]
            IN IF is_leaf(h, var)
               THEN [h |-> [h EXCEPT !.derivative[var] = accumulate_derivative(@, d)],
                     fr |-> fr1]
               ELSE IF h.history[var] # None
               THEN [h |-> h,
                     fr |-> [fr1 EXCEPT !.derivatives =
                                 chain_loop(chain_rule(h, var, d), 1, @)]]
               ELSE [h |-> h, fr |-> fr1]

RECURSIVE bp_run(_, _)
\* The whole loop: the heap when backpropagate returns (or raises).
bp_run(h, fr) ==
    IF bp_more(fr) THEN LET r == bp_iter(h, fr) IN bp_run(r.h, r.fr) ELSE h

backpropagate(h, variable, d) == bp_run(h, bp_enter(h, variable, d))

Frame == [sorted_variables |-> sorted_variables, derivatives |-> derivatives,
          idx |-> idx, deriv |-> deriv, raised |-> pc = "raised"]

SetFrame(fr) ==
    /\ sorted_variables' = fr.sorted_variables
    /\ derivatives' = fr.derivatives
    /\ idx' = fr.idx
    /\ deriv' = fr.deriv
    /\ pc' = IF fr.raised THEN "raised" ELSE "loop"

\* The seeds earlier calls of the run were given.
UsedSeeds == {calls[k][2] : k \in 1 .. Len(calls)}

BackpropagateCall(variable, d) ==
    /\ pc = "idle"
    /\ d \notin UsedSeeds
    /\ SetFrame(bp_enter(Heap, variable, d))
    /\ calls' = Append(calls, <<variable, d>>)
    /\ UNCHANGED <<graph_vars, ctx_vars>>

BackpropagateStep ==
    /\ pc = "loop"
    /\ bp_more(Frame)
    /\ LET r == bp_iter(Heap, Frame)
       IN SetHeap(r.h) /\ SetFrame(r.fr)
    /\ UNCHANGED <<calls, ctx_vars>>

\* The loop is exhausted and backpropagate returns.
BackpropagateReturn ==
    /\ pc = "loop"
    /\ ~bp_more(Frame)
    /\ pc' = "idle"
    /\ sorted_variables' = <<>>
    /\ derivatives' = <<>>
    /\ idx' = 0
    /\ deriv' = 0
    /\ UNCHANGED <<graph_vars, calls, ctx_vars>>

\* ---------------------------------------------------------------- specifications
ValueTuples == {<<>>} \cup {<<a>> : a \in Vals} \cup {<<a, b>> : a, b \in Vals}

NewContext(b, values) ==
    /\ ctx' = Context(b, values)
    /\ ctx_args' = <<>>
    /\ UNCHANGED <<graph_vars, bp_vars>>

SaveForBackward(values) ==
    /\ Len(ctx_args) < MaxSaves
    /\ ctx' = save_for_backward(ctx, values)
    /\ ctx_args' = Append(ctx_args, values)
    /\ UNCHANGED <<graph_vars, bp_vars>>

Init ==
    /\ variable_count = 1
    /\ data = <<>>
    /\ history = <<>>
    /\ derivative = <<>>
    /\ pc = "idle"
    /\ sorted_variables = <<>>
    /\ derivatives = <<>>
    /\ idx = 0
    /\ deriv = 0
    /\ calls = <<>>
    /\ ctx = Context(FALSE, <<>>)
    /\ ctx_args = <<>>

Next ==
    \/ \E cls \in Fns, a, b \in Args : Apply(cls, <<a, b>>)
    \/ \E v \in Vals : NewScalar(v)
    \/ \E v \in ConstVals : NewConstant(v)
    \/ \E variable \in Ids, d \in Seeds : BackpropagateCall(variable, d)
    \/ BackpropagateStep
    \/ BackpropagateReturn

Spec == Init /\ [][Next]_vars

NextCtx ==
    \/ \E b \in BOOLEAN, values \in ValueTuples : NewContext(b, values)
    \/ \E values \in ValueTuples : SaveForBackward(values)

SpecCtx == Init /\ [][NextCtx]_vars

\* ---------------------------------------------------------------- reference notions
\* The exact mathematics the claims compare the code with.
RECURSIVE SumSeq(_)
SumSeq(s) == IF s = <<>> THEN 0 ELSE Head(s) + SumSeq(Tail(s))

Range(s) == {s[k] : k \in 1 .. Len(s)}

HasParents(h, n) == h.history[n] # None /\ Len(h.history[n][1].inputs) > 0

\* The local derivative of operation node v with respect to its k-th input.
Local(h, v, k) ==
    LET hist == h.history[v][1]
    IN IF hist.last_fn = "Add" THEN 1 ELSE h.data[hist.inputs[3 - k]]

RECURSIVE Partial(_, _, _)
\* d v / d x: the sum over all paths from v to x of the product of the local derivatives.
Partial(h, v, x) ==
    IF v = x THEN 1
    ELSE IF ~HasParents(h, v) THEN 0
    ELSE LET ins == h.history[v][1].inputs
         IN SumSeq([k \in 1 .. Len(ins) |-> Local(h, v, k) * Partial(h, ins[k], x)])

RECURSIVE Reach(_, _)
\* The nodes reachable from v through history.inputs, v included.
Reach(h, v) ==
    {v} \cup (IF HasParents(h, v)
              THEN UNION {Reach(h, q) : q \in Range(h.history[v][1].inputs)}
              ELSE {})

\* The nodes of Reach that are not constants, and the true leaves among them.
Live(h, v) == {n \in Reach(h, v) : ~is_constant(h, n)}
Leaves(h, v) == {n \in Live(h, v) : ~HasParents(h, n)}

\* The running (or last) backpropagate call.
Root == calls[Len(calls)][1]
Seed == calls[Len(calls)][2]
InLoop == pc = "loop"
AtExit == pc = "loop" /\ ~bp_more(Frame)
Processed == {reversed(sorted_variables)[k] : k \in 1 .. (idx - 1)}
\* Node n was reached by no call before the running one.
FreshBefore(n) == \A k \in 1 .. (Len(calls) - 1) : n \notin Reach(Heap, calls[k][1])
Position(s, n) == CHOOSE k \in 1 .. Len(s) : s[k] = n

\* ---------------------------------------------------------------- claims

\* c = Mul.apply(Add.apply(2.0, 3.0), 4.0) followed by backpropagate(c, 1.0):
\* nodes 1 and 2 are the wrapped 2.0 and 3.0, 3 the sum, 4 the wrapped 4.0, 5 is c.
ScenarioHeap ==
    LET h1 == apply(EmptyHeap, "Add", <<NumArg(2), NumArg(3)>>)
        h2 == apply(h1, "Mul", <<ScalarArg(3), NumArg(4)>>)
    IN backpropagate(h2, 5, 1)

\* C1: when a backpropagate call has run its loop, every leaf reachable from the
\* root that no earlier call had reached holds seed times the exact partial
\* derivative of the root with respect to it (the sum over all paths of the
\* products of the local derivatives); and on (2 + 3) * 4 with seed 1 the leaves
\* 2 and 3 end with 4, the leaf 4 with 5, the two operation nodes with nothing.
C1_ExactGradient ==
    /\ ScenarioHeap.data = <<2, 3, 5, 4, 20>>
    /\ ScenarioHeap.derivative = <<Some(4), Some(4), None, Some(5), None>>
    /\ AtExit =>
         \A n \in Leaves(Heap, Root) :
            FreshBefore(n) => derivative[n] = Some(Seed * Partial(Heap, Root, n))

C1_Witness ==
    /\ AtExit
    /\ Len(calls) = 1
    /\ HasParents(Heap, Root)
    /\ history[Root][1].last_fn = "Mul"
    /\ HasParents(Heap, parents(Heap, Root)[1])
    /\ history[parents(Heap, Root)[1]][1].last_fn = "Add"
    /\ \E n \in Leaves(Heap, Root) :
          /\ Partial(Heap, Root, n) > 1
          /\ derivative[n] = Some(Seed * Partial(Heap, Root, n))

\* What the processed consumers of p have contributed for p, over every
\* occurrence of p among their inputs.
Contributions(p) ==
    SumSeq([j \in 1 .. (idx - 1) |->
        LET c == reversed(sorted_variables)[j]
        IN IF HasParents(Heap, c)
           THEN LET ins == parents(Heap, c)
                IN SumSeq([k \in 1 .. Len(ins) |->
                       IF ins[k] = p
                       THEN Local(Heap, c, k) * Seed * Partial(Heap, Root, c)
                       ELSE 0])
           ELSE 0])

\* C2: inside the loop the derivative map holds, for every node it has an entry
\* for, the sum of the contributions of every occurrence of that node among the
\* inputs of the consumers processed so far (plus the seed for the root): no
\* contribution overwrites another.  For y = Add.apply(x, x) on a fresh leaf x the
\* call backpropagate(y, seed) leaves x.derivative = 2 * seed.
C2_FanOutSummed ==
    /\ InLoop =>
         \A p \in DOMAIN derivatives :
            derivatives[p] = (IF p = Root THEN Seed ELSE 0) + Contributions(p)
    /\ AtExit =>
         \A x \in Leaves(Heap, Root) :
            (/\ HasParents(Heap, Root)
             /\ history[Root][1].last_fn = "Add"
             /\ parents(Heap, Root) = <<x, x>>
             /\ FreshBefore(x)) => derivative[x] = Some(2 * Seed)

C2_Witness ==
    /\ AtExit
    /\ Seed = 1
    /\ HasParents(Heap, Root)
    /\ history[Root][1].last_fn = "Add"
    /\ \E x \in Leaves(Heap, Root) :
          /\ parents(Heap, Root) = <<x, x>>
          /\ history[x] = Some(EmptyHistory)
          /\ derivative[x] = Some(2)

\* p has an occurrence in s before every occurrence of v, and v occurs in s.
StrictlyEarlier(s, p, v) ==
    /\ \E j \in 1 .. Len(s) : s[j] = v
    /\ \E i \in 1 .. Len(s) : s[i] = p /\ \A j \in 1 .. Len(s) : s[j] = v => i < j

C4_RootFirst ==
    (InLoop /\ ~is_constant(Heap, Root)) =>
        /\ Len(sorted_variables) > 0
        /\ sorted_variables[1] = Root

\* C5: no step changes the derivative of a node that is not a leaf.
C5_LeavesOnly ==
    [][\A n \in Ids : ~is_leaf(Heap, n) => derivative'[n] = derivative[n]]_vars

C5_Witness ==
    /\ AtExit
    /\ HasParents(Heap, Root)
    /\ derivative[Root] = None
    /\ \E v \in Live(Heap, Root) :
          v # Root /\ HasParents(Heap, v) /\ derivative[v] = None
    /\ \A n \in Leaves(Heap, Root) : derivative[n] # None

\* C6: a node with no history is never in the sequence topological_sort returns
\* (the sequence is empty when it is the root), backpropagate never raises, and
\* the derivative of such a node stays unset.
C6_ConstantsUntouched ==
    /\ pc # "raised"
    /\ InLoop => \A k \in 1 .. Len(sorted_variables) :
                    ~is_constant(Heap, sorted_variables[k])
    /\ (InLoop /\ is_constant(Heap, Root)) => sorted_variables = <<>>
    /\ \A n \in Ids : is_constant(Heap, n) => derivative[n] = None

C6_Witness ==
    /\ AtExit
    /\ Len(calls) = 2
    /\ is_constant(Heap, calls[1][1])
    /\ HasParents(Heap, Root)
    /\ calls[1][1] \in Range(parents(Heap, Root))
    /\ \E n \in Leaves(Heap, Root) : derivative[n] # None

\* What the call c = <<root, seed>> alone stores on node n.
Stored(c, n) ==
    IF n \in Reach(Heap, c[1]) THEN Some(c[2] * Partial(Heap, c[1], n)) ELSE None

OptSum(a, b) ==
    IF a = None THEN b ELSE IF b = None THEN a ELSE Some(a[1] + b[1])

\* C7: after two backpropagate calls the derivative of every leaf is the sum of
\* what each of the two calls alone would have stored on it.
C7_CallsAccumulate ==
    ((pc = "idle" \/ AtExit) /\ Len(calls) = 2) =>
        \A n \in Ids :
           (~is_constant(Heap, n) /\ ~HasParents(Heap, n)) =>
               derivative[n] = OptSum(Stored(calls[1], n), Stored(calls[2], n))

C7_Witness ==
    /\ AtExit
    /\ calls = <<(<<Root, 1>>), (<<Root, 2>>)>>
    /\ \E n \in Leaves(Heap, Root) :
          Partial(Heap, Root, n) = 1 /\ derivative[n] = Some(3)

\* C8: a save_for_backward call leaves the Context as it was when no_grad is set
\* and otherwise replaces saved_values by exactly its arguments, so that a
\* Context without no_grad that was saved to holds the latest arguments only.
C8_SaveForBackward ==
    [][/\ Len(ctx_args') = Len(ctx_args) + 1 =>
            IF ctx.no_grad
            THEN ctx' = ctx
            ELSE ctx' = [ctx EXCEPT !.saved_values = ctx_args'[Len(ctx_args')]]
       /\ (~ctx'.no_grad /\ ctx_args' # <<>>) =>
            saved_tensors(ctx') = ctx_args'[Len(ctx_args')]]_vars

C8_Witness ==
    /\ ~ctx.no_grad
    /\ Len(ctx_args) = 2
    /\ ctx_args[1] = <<2, 3>>
    /\ ctx_args[2] = <<3>>
    /\ saved_tensors(ctx) = <<3>>

\* C9: when the loop is about to process a node, every consumer of that node in
\* the graph reachable from the root has been processed, the map has an entry
\* for the node, and the entry is the node's final total derivative.
C9_ConsumersFirst ==
    (InLoop /\ bp_more(Frame)) =>
        LET v == reversed(sorted_variables)[idx]
        IN /\ \A c \in Live(Heap, Root) :
                 (HasParents(Heap, c) /\ v \in Range(parents(Heap, c))) => c \in Processed
           /\ v \in DOMAIN derivatives
           /\ derivatives[v] = Seed * Partial(Heap, Root, v)

C9_Witness ==
    /\ InLoop
    /\ bp_more(Frame)
    /\ LET v == reversed(sorted_variables)[idx]
       IN /\ Cardinality({c \in Live(Heap, Root) :
                 HasParents(Heap, c) /\ v \in Range(parents(Heap, c))}) >= 2
          /\ derivatives[v] = Seed * Partial(Heap, Root, v)
          /\ derivatives[v] > Seed

\* Every input of every node has a smaller unique_id than the node.
Acyclic(h) ==
    \A n \in NodeIds(h) :
       h.history[n] # None =>
          \A q \in Range(h.history[n][1].inputs) : q >= 1 /\ q < n

\* C10: the inputs recorded in a history were all created before the node that
\* holds it, no step changes the value or the history of a node, and a step that
\* constructs nodes changes no derivative.
C10_AcyclicByConstruction ==
    [][/\ Acyclic(Heap')
       /\ \A n \in Ids : data'[n] = data[n] /\ history'[n] = history[n]
       /\ variable_count' # variable_count =>
             /\ variable_count' > variable_count
             /\ \A n \in Ids : derivative'[n] = derivative[n]]_vars

C10_Witness ==
    /\ pc = "idle"
    /\ \E m \in Ids :
          /\ HasParents(Heap, m)
          /\ \A k \in 1 .. Len(calls) : m \notin Reach(Heap, calls[k][1])
          /\ \E q \in Range(parents(Heap, m)) : derivative[q] # None
          /\ \E q \in Range(parents(Heap, m)) :
                q = m - 1 /\ history[q] = Some(EmptyHistory) /\ derivative[q] = None

====
